---- MODULE Spec2Model ----
(***************************************************************************)
(* Model of revm's inspector instrumentation layer:                        *)
(*   crates/revm/src/inspector/handler_register.rs                         *)
(*     inspector_handle_register, inspector_instruction                    *)
(*   crates/interpreter/src/call_outcome.rs                                *)
(*     CallOutcome                                                         *)
(* The opcode handlers, the frame-construction routines, the pre-existing  *)
(* frame_return handler and the Inspector implementation are collaborators *)
(* of this code; they are modelled as inputs drawn from small sets.        *)
(***************************************************************************)
EXTENDS Integers, Sequences, FiniteSets, TLC

VARIABLES
    handler,          \* EvmHandler: instruction_table and the four execution_loop hooks
    interpreter,      \* the running frame's Interpreter (pointer, status, stack)
    journaled_state,  \* host.context.evm.journaled_state: logs and journal
    steps,            \* number of table dispatches made so far
    transact_to,      \* context.evm.env.tx.transact_to: "Call" or "Create"
    phase,            \* "setup", "aborted" while the handler is built; then the
                      \* execution loop: "new", "running", "done"
    call_stack,       \* the execution loop's stack of CallStackFrames
    tx_result,        \* the transaction's result, once there is one
    subs,             \* history: one record per execution the call/create hook was asked about
    call_outcome,     \* a CallOutcome value, while one exists
    new_args,         \* history: the arguments call_outcome was constructed with
    inv               \* the last invocation of a handler of this layer: inputs, hook trace

vars == <<handler, interpreter, journaled_state, steps, transact_to, phase,
          call_stack, tx_result, subs, call_outcome, new_args, inv>>

instrVars == <<interpreter, journaled_state>>

frameVars == <<transact_to, phase, call_stack, tx_result, subs>>

outcomeVars == <<call_outcome, new_args>>

-----------------------------------------------------------------------------
(* Bounds *)

MaxSteps == 2     \* dispatches per run
MaxPc == 3        \* length of the bytecode
MaxStack == 2     \* interpreter stack limit
MaxDepth == 2     \* frames on the call stack
MaxSubs == 3      \* executions requested per transaction, the top-level one included
MaxMem == 2       \* largest memory offset a range names

-----------------------------------------------------------------------------
(* opcode bytes named in the source *)

LOG0 == 160
LOG1 == 161
LOG2 == 162
LOG3 == 163
LOG4 == 164
SELFDESTRUCT == 255
TableSize == 256

STOP == 0
POP == 80
SSTORE == 85
PC == 88
UNDEFINED == 12

Opcodes == 0 .. (TableSize - 1)
LogOpcodes == {LOG0, LOG1, LOG2, LOG3, LOG4}

\* the opcodes the bytecode of a run is drawn from
DispatchedOpcodes == {STOP, POP, SSTORE, PC, UNDEFINED, LOG0, LOG4, SELFDESTRUCT}

ContractAddress == "self"

-----------------------------------------------------------------------------
(* Sequence helpers *)

Last(s) == s[Len(s)]

Front(s) == SubSeq(s, 1, Len(s) - 1)

\* journal.last_mut().push(entry): append to the current (last) segment
PushEntry(journal, entry) ==
    [journal EXCEPT ![Len(journal)] = Append(@, entry)]

-----------------------------------------------------------------------------
(* A machine value threads the state every handler receives by mutable     *)
(* reference: the interpreter, host.context.evm, and the trace of calls    *)
(* made to the inspector and to the wrapped handler.                       *)

Machine(interp, js) ==
    [interpreter |-> interp, journaled_state |-> js, trace |-> <<>>, panic |-> FALSE]

NoArg == [kind |-> "none"]

\* one call: the callee, its arguments, the input that decides what the callee does,
\* the instruction pointer on entry and on return, and the status on entry and on return
Event(hook, arg, input, before, after) ==
    [hook |-> hook, arg |-> arg, input |-> input,
     ip |-> before.interpreter.instruction_pointer,
     ip_out |-> after.interpreter.instruction_pointer,
     status_in |-> before.interpreter.instruction_result,
     status |-> after.interpreter.instruction_result]

\* the callee took the machine from before to after
Record(before, after, hook, arg, input) ==
    [after EXCEPT !.trace = Append(@, Event(hook, arg, input, before, after))]

SetStatus(m, st) == [m EXCEPT !.interpreter.instruction_result = st]

\* the Log record a LOG handler journals
LogRecord(op, interp) ==
    [address |-> ContractAddress, topics |-> op - LOG0, data |-> interp.instruction_pointer]

ObserverLog == [address |-> "inspector", topics |-> 0, data |-> 0]

DestroyedEntry(interp) ==
    [kind |-> "AccountDestroyed",
     address |-> ContractAddress,
     target |-> IF interp.stack = <<>> THEN 0 ELSE Last(interp.stack),
     had_balance |-> interp.instruction_pointer]

OtherEntry(kind) ==
    [kind |-> kind, address |-> ContractAddress, target |-> 0, had_balance |-> 0]

-----------------------------------------------------------------------------
(* The real (undecorated) opcode handlers of the base table.  ok is the    *)
(* outcome of the handler's own gas/stack/static checks.                   *)

InstructionEffect(op, m, ok) ==
    LET i == m.interpreter
    IN  CASE op \in LogOpcodes ->
                IF ok
                THEN [m EXCEPT !.journaled_state.logs = Append(@, LogRecord(op, i))]
                ELSE SetStatus(m, "OutOfGas")
          [] op = SELFDESTRUCT ->
                IF ok
                THEN SetStatus(
                        [m EXCEPT !.journaled_state.journal =
                                        PushEntry(@, DestroyedEntry(i))],
                        "SelfDestruct")
                ELSE SetStatus(m, "OutOfGas")
          [] op = SSTORE ->
                IF ok
                THEN [m EXCEPT !.journaled_state.journal =
                                    PushEntry(@, OtherEntry("StorageChange"))]
                ELSE SetStatus(m, "OutOfGas")
          [] op = PC ->
                IF Len(i.stack) < MaxStack
                THEN [m EXCEPT !.interpreter.stack = Append(@, i.instruction_pointer - 1)]
                ELSE SetStatus(m, "StackOverflow")
          [] op = POP ->
                IF i.stack # <<>>
                THEN [m EXCEPT !.interpreter.stack = Front(@)]
                ELSE SetStatus(m, "StackUnderflow")
          [] op = STOP -> SetStatus(m, "Stop")
          [] OTHER -> SetStatus(m, "OpcodeNotFound")

Instruction(op, m, ok) ==
    Record(m, InstructionEffect(op, m, ok), "instruction",
           [kind |-> "opcode", opcode |-> op], IF ok THEN "ok" ELSE "fault")

-----------------------------------------------------------------------------
(* The Inspector.  Each hook receives mutable references; what it does     *)
(* with them is an input.                                                  *)

StepBehaviours == {"noop", "halt", "move"}
StepEndBehaviours == {"noop", "revert", "log"}
LogBehaviours == {"noop", "touch"}

\* Inspector::step(interpreter, &mut context.evm)
InspectorStep(m, b) ==
    Record(m,
           CASE b = "halt" -> SetStatus(m, "Stop")
             [] b = "move" -> [m EXCEPT !.interpreter.instruction_pointer = @ + 1]
             [] OTHER -> m,
           "step", NoArg, b)

\* Inspector::step_end(interpreter, &mut context.evm)
InspectorStepEnd(m, b) ==
    Record(m,
           CASE b = "revert" -> SetStatus(m, "Revert")
             [] b = "log" -> [m EXCEPT !.journaled_state.logs = Append(@, ObserverLog)]
             [] OTHER -> m,
           "step_end", NoArg, b)

\* Inspector::log(&mut context.evm, &log)
InspectorLog(m, log, b) ==
    Record(m,
           IF b = "touch"
           THEN [m EXCEPT !.journaled_state.journal =
                               PushEntry(@, OtherEntry("AccountTouched"))]
           ELSE m,
           "log", [kind |-> "log", log |-> log], b)

\* Inspector::selfdestruct(address, target, value)
InspectorSelfdestruct(m, address, target, value) ==
    Record(m, m, "selfdestruct",
           [kind |-> "selfdestruct", address |-> address, target |-> target,
            value |-> value],
           "noop")

-----------------------------------------------------------------------------
(* inspector_instruction: the step / step_end wrapper of one handler        *)

\* faulty variant: the status check after step is missing
InspectorInstructionNoAbort(op, m0, env) ==
    LET rewound == [m0 EXCEPT !.interpreter.instruction_pointer = @ - 1]
        stepped == InspectorStep(rewound, env.step)
        restored == [stepped EXCEPT !.interpreter.instruction_pointer = @ + 1]
        executed == Instruction(op, restored, env.ok)
    IN  InspectorStepEnd(executed, env.step_end)

\* faulty variant: the pointer is not put back before the handler runs
InspectorInstructionNoRestore(op, m0, env) ==
    LET rewound == [m0 EXCEPT !.interpreter.instruction_pointer = @ - 1]
        stepped == InspectorStep(rewound, env.step)
    IN  IF stepped.interpreter.instruction_result # "Continue"
        THEN stepped
        ELSE InspectorStepEnd(Instruction(op, stepped, env.ok), env.step_end)

\* faulty variant: the pointer is not rewound for step, yet still advanced afterwards
InspectorInstructionNoRewind(op, m0, env) ==
    LET stepped == InspectorStep(m0, env.step)
    IN  IF stepped.interpreter.instruction_result # "Continue"
        THEN stepped
        ELSE LET restored == [stepped EXCEPT !.interpreter.instruction_pointer = @ + 1]
                 executed == Instruction(op, restored, env.ok)
             IN  InspectorStepEnd(executed, env.step_end)

\* faulty variant: the pointer is put back before the early return as well
InspectorInstructionRestoresOnAbort(op, m0, env) ==
    LET rewound == [m0 EXCEPT !.interpreter.instruction_pointer = @ - 1]
        stepped == InspectorStep(rewound, env.step)
        restored == [stepped EXCEPT !.interpreter.instruction_pointer = @ + 1]
    IN  IF stepped.interpreter.instruction_result # "Continue"
        THEN restored
        ELSE InspectorStepEnd(Instruction(op, restored, env.ok), env.step_end)

\* faulty variant: step_end is skipped when the handler left a status other than Continue
InspectorInstructionSkipsStepEnd(op, m0, env) ==
    LET rewound == [m0 EXCEPT !.interpreter.instruction_pointer = @ - 1]
        stepped == InspectorStep(rewound, env.step)
    IN  IF stepped.interpreter.instruction_result # "Continue"
        THEN stepped
        ELSE LET restored == [stepped EXCEPT !.interpreter.instruction_pointer = @ + 1]
                 executed == Instruction(op, restored, env.ok)
             IN  IF executed.interpreter.instruction_result # "Continue"
                 THEN executed
                 ELSE InspectorStepEnd(executed, env.step_end)

InspectorInstruction(op, m0, env) ==
    LET rewound == [m0 EXCEPT !.interpreter.instruction_pointer = @ - 1]
        stepped == InspectorStep(rewound, env.step)
    IN  IF stepped.interpreter.instruction_result # "Continue"
        THEN stepped
        ELSE LET restored == [stepped EXCEPT !.interpreter.instruction_pointer = @ + 1]
                 executed == Instruction(op, restored, env.ok)
             IN  InspectorStepEnd(executed, env.step_end)

(* inspect_log: the post-hook layered on LOG0..LOG4 *)

\* faulty variant: any growth of the log list calls the hook
InspectLogAnyGrowth(op, m0, env) ==
    LET old_log_len == Len(m0.journaled_state.logs)
        m == InspectorInstruction(op, m0, env)
    IN  IF Len(m.journaled_state.logs) > old_log_len
        THEN InspectorLog(m, Last(m.journaled_state.logs), env.log)
        ELSE m

\* faulty variant: the layers are nested the other way round, the log hook runs between
\* the handler and step_end
InspectLogInside(op, m0, env) ==
    LET old_log_len == Len(m0.journaled_state.logs)
        rewound == [m0 EXCEPT !.interpreter.instruction_pointer = @ - 1]
        stepped == InspectorStep(rewound, env.step)
    IN  IF stepped.interpreter.instruction_result # "Continue"
        THEN stepped
        ELSE LET restored == [stepped EXCEPT !.interpreter.instruction_pointer = @ + 1]
                 executed == Instruction(op, restored, env.ok)
                 hooked == IF Len(executed.journaled_state.logs) = old_log_len + 1
                           THEN InspectorLog(executed, Last(executed.journaled_state.logs),
                                             env.log)
                           ELSE executed
             IN  InspectorStepEnd(hooked, env.step_end)

InspectLog(op, m0, env) ==
    LET old_log_len == Len(m0.journaled_state.logs)
        m == InspectorInstruction(op, m0, env)
    IN  IF Len(m.journaled_state.logs) = old_log_len + 1
        THEN InspectorLog(m, Last(m.journaled_state.logs), env.log)
        ELSE m

(* the post-hook layered on SELFDESTRUCT *)

\* faulty variant: the kind of the last journal entry is not matched
InspectSelfdestructAnyEntry(op, m0, env) ==
    LET m == InspectorInstruction(op, m0, env)
        journal == m.journaled_state.journal
    IN  IF journal = <<>>
        THEN [m EXCEPT !.panic = TRUE]
        ELSE IF Last(journal) # <<>>
        THEN InspectorSelfdestruct(m, Last(Last(journal)).address,
                                   Last(Last(journal)).target,
                                   Last(Last(journal)).had_balance)
        ELSE m

InspectSelfdestruct(op, m0, env) ==
    LET m == InspectorInstruction(op, m0, env)
        journal == m.journaled_state.journal
    IN  IF journal = <<>>
        THEN [m EXCEPT !.panic = TRUE]          \* journal.last().unwrap()
        ELSE IF Last(journal) # <<>> /\ Last(Last(journal)).kind = "AccountDestroyed"
        THEN InspectorSelfdestruct(m, Last(Last(journal)).address,
                                   Last(Last(journal)).target,
                                   Last(Last(journal)).had_balance)
        ELSE m

-----------------------------------------------------------------------------
(* The instruction table.  An entry names the base handler it holds and    *)
(* the layers wrapped around it.                                           *)

BaseEntry(i) == [handler |-> i, step |-> FALSE, post |-> "none"]

BaseTable == [i \in Opcodes |-> BaseEntry(i)]

UndefinedOpcodes == {UNDEFINED}

\* faulty variant: slots of undefined opcodes are left as they were
WrapDefinedOnly(table) ==
    [i \in DOMAIN table |->
        IF i \in UndefinedOpcodes THEN table[i] ELSE [table[i] EXCEPT !.step = TRUE]]

\* table.into_iter().map(|i| inspector_instruction(i)).collect()
WrapAll(table) == [i \in DOMAIN table |-> [table[i] EXCEPT !.step = TRUE]]

\* inspect_log(index)
WrapLog(table, index) ==
    IF index \in DOMAIN table THEN [table EXCEPT ![index].post = "log"] ELSE table

\* the selfdestruct registration
WrapSelfdestruct(table) ==
    IF SELFDESTRUCT \in DOMAIN table
    THEN [table EXCEPT ![SELFDESTRUCT].post = "selfdestruct"]
    ELSE table

InspectorTable ==
    WrapSelfdestruct(
        WrapLog(WrapLog(WrapLog(WrapLog(WrapLog(WrapAll(BaseTable),
            LOG0), LOG1), LOG2), LOG3), LOG4))

\* the register's work on a table that is present: lines 46-55, 90-94, 130-159
WrapTable(table) ==
    WrapSelfdestruct(
        WrapLog(WrapLog(WrapLog(WrapLog(WrapLog(WrapAll(table),
            LOG0), LOG1), LOG2), LOG3), LOG4))

\* handler.instruction_table: None, or Some(Plain(table)) / Some(Boxed(table))
Absent == [form |-> "Absent"]

Tables(form, table) == [form |-> form, table |-> table]

\* the handler of a spec_id before any register ran
MainnetHandler(instruction_table) ==
    [instruction_table |-> instruction_table, create_first_frame |-> "mainnet",
     sub_create |-> "mainnet", sub_call |-> "mainnet", frame_return |-> "mainnet"]

\* faulty variant: the execution_loop hooks are installed before the table is taken
InspectorHandleRegisterHooksFirst(h) ==
    LET hooked == [h EXCEPT !.create_first_frame = "inspector",
                            !.sub_create = "inspector",
                            !.sub_call = "inspector",
                            !.frame_return = "inspector"]
    IN  IF h.instruction_table = Absent
        THEN [handler |-> hooked, panic |-> TRUE]
        ELSE [handler |-> [hooked EXCEPT !.instruction_table =
                                Tables("Boxed", WrapTable(h.instruction_table.table))],
              panic |-> FALSE]

\* inspector_handle_register(handler)
InspectorHandleRegister(h) ==
    IF h.instruction_table = Absent
    THEN [handler |-> h, panic |-> TRUE]       \* take() of None, then expect
    ELSE [handler |->
            [instruction_table |-> Tables("Boxed", WrapTable(h.instruction_table.table)),
             create_first_frame |-> "inspector",
             sub_create |-> "inspector",
             sub_call |-> "inspector",
             frame_return |-> "inspector"],
          panic |-> FALSE]

\* calling a table entry
Call(entry, m, env) ==
    CASE entry.post = "log" -> InspectLog(entry.handler, m, env)
      [] entry.post = "selfdestruct" -> InspectSelfdestruct(entry.handler, m, env)
      [] entry.step -> InspectorInstruction(entry.handler, m, env)
      [] OTHER -> Instruction(entry.handler, m, env.ok)

-----------------------------------------------------------------------------
(* Values of the frame lifecycle *)

None == [some |-> FALSE]

Some(v) == [some |-> TRUE, v |-> v]

Range(start, end) == [start |-> start, end |-> end]

InterpreterResult(result, output, gas) ==
    [result |-> result, output |-> output, gas |-> gas]

\* what an inspector's call/create hook may synthesize
SynthResults ==
    {InterpreterResult("Stop", <<18, 52>>, 0), InterpreterResult("Revert", <<>>, 1)}

SynthRanges == {Range(0, 0), Range(1, 3)}

SynthAddresses == {None, Some("synth")}

\* what make_call_frame / make_create_frame return when they reject
FailureResults == {InterpreterResult("CallTooDeep", <<>>, 1)}

\* what a frame's interpreter returns when it finishes
ReturnResults ==
    {InterpreterResult("Return", <<1>>, 0), InterpreterResult("Revert", <<>>, 1)}

\* what call_end / create_end hand back in place of the result they were given
ReplacedResult == InterpreterResult("Stop", <<7>>, 2)

\* the return-memory range a CALL instruction asks for
ReturnRanges == {Range(0, 0), Range(0, 2)}

CallHookOutputs ==
    {None} \cup {Some([result |-> r, range |-> g]) : r \in SynthResults, g \in SynthRanges}

CreateHookOutputs ==
    {None} \cup {Some([result |-> r, address |-> a]) : r \in SynthResults, a \in SynthAddresses}

MakeFrameOutputs ==
    {[kind |-> "Frame"]} \cup {[kind |-> "Result", result |-> r] : r \in FailureResults}

CallEndBehaviours == {"keep", "replace"}

CreateEndBehaviours == {"keep", "replace", "address", "no_address"}

FrameData(tag, created_address, return_memory_range) ==
    [tag |-> tag, created_address |-> created_address,
     return_memory_range |-> return_memory_range]

NoOutput == [kind |-> "none"]

\* a CallStackFrame: its FrameData and the pending-output slot of its interpreter
CallStackFrame(frame_data, sub) ==
    [frame_data |-> frame_data, output |-> NoOutput, initialized |-> FALSE, sub |-> sub]

\* CallStackFrame::created_address
CreatedAddress(frame) ==
    IF frame.frame_data.tag = "Create" THEN Some(frame.frame_data.created_address) ELSE None

\* one call made by a lifecycle hook: the callee, its arguments, what it returned
Note(hook, arg, ret) == [hook |-> hook, arg |-> arg, ret |-> ret]

Count(trace, hooks) == Cardinality({k \in DOMAIN trace : trace[k].hook \in hooks})

\* Interpreter::insert_call_output(memory, result, range)
InsertCallOutput(frame, result, range) ==
    [frame EXCEPT !.output = [kind |-> "call", result |-> result, range |-> range]]

\* Interpreter::insert_create_output(result, address)
InsertCreateOutput(frame, result, address) ==
    [frame EXCEPT !.output = [kind |-> "create", result |-> result, address |-> address]]

\* Inspector::call_end(&mut context.evm, result)
InspectorCallEnd(result, b) ==
    IF b = "replace" THEN ReplacedResult ELSE result

\* Inspector::create_end(&mut context.evm, result, address)
InspectorCreateEnd(result, address, b) ==
    CASE b = "replace" -> [result |-> ReplacedResult, address |-> address]
      [] b = "address" -> [result |-> result, address |-> Some("replaced")]
      [] b = "no_address" -> [result |-> result, address |-> None]
      [] OTHER -> [result |-> result, address |-> address]

\* EvmContext::make_call_frame / make_create_frame, when they build a frame
NewCallFrame(range, sub) == CallStackFrame(FrameData("Call", "none", range), sub)

NewCreateFrame(sub) == CallStackFrame(FrameData("Create", "created", Range(0, 0)), sub)

\* Inspector::initialize_interp(&mut new_frame.interpreter, &mut context.evm)
InitializeInterp(frame) == [frame EXCEPT !.initialized = TRUE]

-----------------------------------------------------------------------------
(* The four execution_loop hooks installed by inspector_handle_register.   *)
(* Each yields the trace of the calls it made, its return value, and the   *)
(* frame it was given by mutable reference.                                *)

Outcome(trace, ret, frame) == [trace |-> trace, ret |-> ret, frame |-> frame]

\* faulty variant: the create branch builds the frame whatever the create hook returned
CreateFirstFrameIgnoresCreate(to, env) ==
    IF to = "Call"
    THEN LET t1 == <<Note("call", [kind |-> "inputs"], env.call)>>
         IN  IF env.call.some
             THEN Outcome(t1, [kind |-> "Result", result |-> env.call.v.result], None)
             ELSE Outcome(Append(t1, Note("make_call_frame", Range(0, 0), env.make)),
                          IF env.make.kind = "Frame"
                          THEN [kind |-> "Frame", frame |-> NewCallFrame(Range(0, 0), 1)]
                          ELSE env.make,
                          None)
    ELSE Outcome(<<Note("create", [kind |-> "inputs"], env.create),
                   Note("make_create_frame", NoArg, env.make)>>,
                 IF env.make.kind = "Frame"
                 THEN [kind |-> "Frame", frame |-> NewCreateFrame(1)]
                 ELSE env.make,
                 None)

\* handler.execution_loop.create_first_frame
CreateFirstFrame(to, env) ==
    IF to = "Call"
    THEN LET t1 == <<Note("call", [kind |-> "inputs"], env.call)>>
         IN  IF env.call.some
             THEN Outcome(t1, [kind |-> "Result", result |-> env.call.v.result], None)
             ELSE Outcome(Append(t1, Note("make_call_frame", Range(0, 0), env.make)),
                          IF env.make.kind = "Frame"
                          THEN [kind |-> "Frame", frame |-> NewCallFrame(Range(0, 0), 1)]
                          ELSE env.make,
                          None)
    ELSE LET t1 == <<Note("create", [kind |-> "inputs"], env.create)>>
         IN  IF env.create.some
             THEN Outcome(t1, [kind |-> "Result", result |-> env.create.v.result], None)
             ELSE Outcome(Append(t1, Note("make_create_frame", NoArg, env.make)),
                          IF env.make.kind = "Frame"
                          THEN [kind |-> "Frame", frame |-> NewCreateFrame(1)]
                          ELSE env.make,
                          None)

\* faulty variant: a rejected construction is written to the frame without create_end
SubCreateNoEndOnFailure(frame, sub, env) ==
    LET t1 == <<Note("create", [kind |-> "inputs"], env.create)>>
    IN  IF env.create.some
        THEN Outcome(
                Append(t1, Note("insert_create_output", env.create.v, NoArg)),
                None,
                InsertCreateOutput(frame, env.create.v.result, env.create.v.address))
        ELSE LET t2 == Append(t1, Note("make_create_frame", NoArg, env.make))
             IN  IF env.make.kind = "Frame"
                 THEN Outcome(Append(t2, Note("initialize_interp", NoArg, NoArg)),
                              Some(InitializeInterp(NewCreateFrame(sub))),
                              frame)
                 ELSE Outcome(
                        Append(t2, Note("insert_create_output",
                                        [result |-> env.make.result,
                                         address |-> CreatedAddress(frame)],
                                        NoArg)),
                        None,
                        InsertCreateOutput(frame, env.make.result, CreatedAddress(frame)))

\* handler.execution_loop.sub_create
SubCreate(frame, sub, env) ==
    LET t1 == <<Note("create", [kind |-> "inputs"], env.create)>>
    IN  IF env.create.some
        THEN Outcome(
                Append(t1, Note("insert_create_output", env.create.v, NoArg)),
                None,
                InsertCreateOutput(frame, env.create.v.result, env.create.v.address))
        ELSE LET t2 == Append(t1, Note("make_create_frame", NoArg, env.make))
             IN  IF env.make.kind = "Frame"
                 THEN Outcome(Append(t2, Note("initialize_interp", NoArg, NoArg)),
                              Some(InitializeInterp(NewCreateFrame(sub))),
                              frame)
                 ELSE LET ended == InspectorCreateEnd(env.make.result,
                                                     CreatedAddress(frame), env.create_end)
                      IN  Outcome(
                            t2 \o <<Note("create_end",
                                         [result |-> env.make.result,
                                          address |-> CreatedAddress(frame)],
                                         ended),
                                    Note("insert_create_output", ended, NoArg)>>,
                            None,
                            InsertCreateOutput(frame, ended.result, ended.address))

\* faulty variant: the synthesized result is written at the caller's return range, not at
\* the range the call hook supplied
SubCallWrongRange(frame, return_memory_offset, sub, env) ==
    LET t1 == <<Note("call", [kind |-> "inputs"], env.call)>>
    IN  IF env.call.some
        THEN Outcome(
                Append(t1, Note("insert_call_output",
                                [result |-> env.call.v.result,
                                 range |-> return_memory_offset],
                                NoArg)),
                None,
                InsertCallOutput(frame, env.call.v.result, return_memory_offset))
        ELSE LET t2 == Append(t1, Note("make_call_frame", return_memory_offset, env.make))
             IN  IF env.make.kind = "Frame"
                 THEN Outcome(Append(t2, Note("initialize_interp", NoArg, NoArg)),
                              Some(InitializeInterp(
                                      NewCallFrame(return_memory_offset, sub))),
                              frame)
                 ELSE LET result == InspectorCallEnd(env.make.result, env.call_end)
                      IN  Outcome(
                            t2 \o <<Note("call_end", env.make.result, result),
                                    Note("insert_call_output",
                                         [result |-> result,
                                          range |-> return_memory_offset],
                                         NoArg)>>,
                            None,
                            InsertCallOutput(frame, result, return_memory_offset))

\* faulty variant: on a rejected construction the result call_end returned is dropped and
\* the rejection itself is written to the frame
SubCallKeepsFailureResult(frame, return_memory_offset, sub, env) ==
    LET t1 == <<Note("call", [kind |-> "inputs"], env.call)>>
    IN  IF env.call.some
        THEN Outcome(
                Append(t1, Note("insert_call_output", env.call.v, NoArg)),
                None,
                InsertCallOutput(frame, env.call.v.result, env.call.v.range))
        ELSE LET t2 == Append(t1, Note("make_call_frame", return_memory_offset, env.make))
             IN  IF env.make.kind = "Frame"
                 THEN Outcome(Append(t2, Note("initialize_interp", NoArg, NoArg)),
                              Some(InitializeInterp(
                                      NewCallFrame(return_memory_offset, sub))),
                              frame)
                 ELSE LET result == InspectorCallEnd(env.make.result, env.call_end)
                      IN  Outcome(
                            t2 \o <<Note("call_end", env.make.result, result),
                                    Note("insert_call_output",
                                         [result |-> env.make.result,
                                          range |-> return_memory_offset],
                                         NoArg)>>,
                            None,
                            InsertCallOutput(frame, env.make.result, return_memory_offset))

\* handler.execution_loop.sub_call
SubCall(frame, return_memory_offset, sub, env) ==
    LET t1 == <<Note("call", [kind |-> "inputs"], env.call)>>
    IN  IF env.call.some
        THEN Outcome(
                Append(t1, Note("insert_call_output", env.call.v, NoArg)),
                None,
                InsertCallOutput(frame, env.call.v.result, env.call.v.range))
        ELSE LET t2 == Append(t1, Note("make_call_frame", return_memory_offset, env.make))
             IN  IF env.make.kind = "Frame"
                 THEN Outcome(Append(t2, Note("initialize_interp", NoArg, NoArg)),
                              Some(InitializeInterp(
                                      NewCallFrame(return_memory_offset, sub))),
                              frame)
                 ELSE LET result == InspectorCallEnd(env.make.result, env.call_end)
                      IN  Outcome(
                            t2 \o <<Note("call_end", env.make.result, result),
                                    Note("insert_call_output",
                                         [result |-> result,
                                          range |-> return_memory_offset],
                                         NoArg)>>,
                            None,
                            InsertCallOutput(frame, result, return_memory_offset))

\* the frame_return handler that was installed before registration (old_handle):
\* without a parent the result is the transaction's, otherwise it is merged into
\* the parent's pending output
OldFrameReturn(child, parent, result) ==
    IF ~parent.some
    THEN [ret |-> Some(result), parent |-> parent]
    ELSE [ret |-> None,
          parent |->
            Some(IF child.frame_data.tag = "Create"
                 THEN InsertCreateOutput(parent.v, result,
                                         IF result.result = "Return"
                                         THEN Some(child.frame_data.created_address)
                                         ELSE None)
                 ELSE InsertCallOutput(parent.v, result,
                                       child.frame_data.return_memory_range))]

\* faulty variant: old_handle is given the result frame_return received, not the one the
\* end hook returned
FrameReturnDropsHookResult(child, parent, result, env) ==
    IF child.frame_data.tag = "Create"
    THEN LET created_address == child.frame_data.created_address
             ended == InspectorCreateEnd(result, Some(created_address), env.create_end)
             child2 == IF ended.address.some
                       THEN [child EXCEPT !.frame_data.created_address = ended.address.v]
                       ELSE child
             old == OldFrameReturn(child2, parent, result)
         IN  Outcome(<<Note("create_end",
                            [result |-> result, address |-> Some(created_address)],
                            ended),
                       Note("old_handle", [child |-> child2, result |-> result],
                            old.ret)>>,
                     old.ret, old.parent)
    ELSE LET ended == InspectorCallEnd(result, env.call_end)
             old == OldFrameReturn(child, parent, result)
         IN  Outcome(<<Note("call_end", result, ended),
                       Note("old_handle", [child |-> child, result |-> result], old.ret)>>,
                     old.ret, old.parent)

\* faulty variant: the address create_end returned is not stored in the child
FrameReturnKeepsAddress(child, parent, result, env) ==
    IF child.frame_data.tag = "Create"
    THEN LET created_address == child.frame_data.created_address
             ended == InspectorCreateEnd(result, Some(created_address), env.create_end)
             old == OldFrameReturn(child, parent, ended.result)
         IN  Outcome(<<Note("create_end",
                            [result |-> result, address |-> Some(created_address)],
                            ended),
                       Note("old_handle", [child |-> child, result |-> ended.result],
                            old.ret)>>,
                     old.ret, old.parent)
    ELSE LET ended == InspectorCallEnd(result, env.call_end)
             old == OldFrameReturn(child, parent, ended)
         IN  Outcome(<<Note("call_end", result, ended),
                       Note("old_handle", [child |-> child, result |-> ended], old.ret)>>,
                     old.ret, old.parent)

\* handler.execution_loop.frame_return; the frame it yields is the parent
FrameReturn(child, parent, result, env) ==
    IF child.frame_data.tag = "Create"
    THEN LET created_address == child.frame_data.created_address
             ended == InspectorCreateEnd(result, Some(created_address), env.create_end)
             child2 == IF ended.address.some
                       THEN [child EXCEPT !.frame_data.created_address = ended.address.v]
                       ELSE child
             old == OldFrameReturn(child2, parent, ended.result)
         IN  Outcome(<<Note("create_end",
                            [result |-> result, address |-> Some(created_address)],
                            ended),
                       Note("old_handle", [child |-> child2, result |-> ended.result],
                            old.ret)>>,
                     old.ret, old.parent)
    ELSE LET ended == InspectorCallEnd(result, env.call_end)
             old == OldFrameReturn(child, parent, ended)
         IN  Outcome(<<Note("call_end", result, ended),
                       Note("old_handle", [child |-> child, result |-> ended], old.ret)>>,
                     old.ret, old.parent)

-----------------------------------------------------------------------------
(* CallOutcome *)

NoOutcome == [kind |-> "none"]

\* core::ops::Range<usize>::len: an inverted range is empty
RangeLen(range) == IF range.start < range.end THEN range.end - range.start ELSE 0

\* CallOutcome::new
CallOutcomeNew(interpreter_result, memory_offset) ==
    [kind |-> "CallOutcome", interpreter_result |-> interpreter_result,
     memory_offset |-> memory_offset]

\* CallOutcome::instruction_result
CallOutcomeInstructionResult(o) == o.interpreter_result.result

\* CallOutcome::gas
CallOutcomeGas(o) == o.interpreter_result.gas

\* CallOutcome::output
CallOutcomeOutput(o) == o.interpreter_result.output

\* CallOutcome::memory_start
CallOutcomeMemoryStart(o) == o.memory_offset.start

\* faulty variant: the length of the output bytes is returned
CallOutcomeMemoryLengthOfOutput(o) == Len(o.interpreter_result.output)

\* CallOutcome::memory_length
CallOutcomeMemoryLength(o) == RangeLen(o.memory_offset)

-----------------------------------------------------------------------------
(* State machine *)

NoInv == [op |-> "none"]

DispatchEnvs ==
    [ok : BOOLEAN, step : StepBehaviours, step_end : StepEndBehaviours,
     log : LogBehaviours]

\* the opcodes whose handler has a gas / static check that may fail
CheckedOpcodes == LogOpcodes \cup {SELFDESTRUCT, SSTORE}

\* the inputs of one dispatch of op; an input the dispatch never consumes is held
\* at its first value
DispatchEnvsOf(op) ==
    {e \in DispatchEnvs :
        /\ op \notin CheckedOpcodes => e.ok
        /\ op \notin LogOpcodes => e.log = "noop"
        /\ e.step = "halt" => e.ok /\ e.step_end = "noop" /\ e.log = "noop"}

NewInterpreter == [instruction_pointer |-> 0, instruction_result |-> "Continue",
                   stack |-> <<>>]

NewJournaledState == [logs |-> <<>>, journal |-> << <<>> >>]

\* the handler an Evm with an inspector runs on: the register has been applied
InitHandler == InspectorHandleRegister(MainnetHandler(Tables("Plain", BaseTable))).handler

\* the handlers the register may be given
SourceHandlers ==
    {MainnetHandler(t) : t \in {Absent, Tables("Plain", BaseTable), Tables("Boxed", BaseTable)}}

NoResult == [kind |-> "none"]

InitRest ==
    /\ interpreter = NewInterpreter
    /\ journaled_state = NewJournaledState
    /\ steps = 0
    /\ phase = "new"
    /\ call_stack = <<>>
    /\ tx_result = NoResult
    /\ subs = <<>>
    /\ call_outcome = NoOutcome
    /\ new_args = NoOutcome
    /\ inv = NoInv

InitCommon == handler = InitHandler /\ InitRest

\* the handler is still being built: the register has not run yet
InitInstr ==
    /\ handler \in SourceHandlers
    /\ interpreter = NewInterpreter
    /\ journaled_state = NewJournaledState
    /\ steps = 0
    /\ phase = "setup"
    /\ call_stack = <<>>
    /\ tx_result = NoResult
    /\ subs = <<>>
    /\ call_outcome = NoOutcome
    /\ new_args = NoOutcome
    /\ inv = NoInv
    /\ transact_to = "Call"

\* the builder applies the register to the handler
Register ==
    /\ phase = "setup"
    /\ LET registered == InspectorHandleRegister(handler)
       IN  /\ handler' = registered.handler
           /\ phase' = IF registered.panic THEN "aborted" ELSE "new"
           /\ inv' = [op |-> "register", source |-> handler.instruction_table.form,
                      panic |-> registered.panic]
    /\ UNCHANGED <<outcomeVars, instrVars, steps, transact_to, call_stack, tx_result, subs>>

Init == InitCommon /\ transact_to \in {"Call", "Create"}

\* Interpreter::step: fetch the opcode, advance the pointer, call the table entry
Dispatch(op, env) ==
    /\ phase \notin {"setup", "aborted"}
    /\ handler.instruction_table # Absent
    /\ interpreter.instruction_result = "Continue"
    /\ interpreter.instruction_pointer < MaxPc
    /\ steps < MaxSteps
    /\ LET advanced == [interpreter EXCEPT !.instruction_pointer = @ + 1]
           m0 == Machine(advanced, journaled_state)
           m == Call(handler.instruction_table.table[op], m0, env)
       IN  /\ interpreter' = m.interpreter
           /\ journaled_state' = m.journaled_state
           /\ inv' = [op |-> "dispatch", opcode |-> op, pre |-> m0, trace |-> m.trace,
                      panic |-> m.panic]
    /\ steps' = steps + 1
    /\ UNCHANGED <<outcomeVars, handler, frameVars>>

\* the execution loop moves on to another frame's interpreter: a child frame
\* starts behind a fresh checkpoint, or a parent resumes after a commit
SwitchFrame(checkpoint) ==
    /\ phase \notin {"setup", "aborted"}
    /\ interpreter.instruction_result # "Continue"
    /\ steps < MaxSteps
    /\ interpreter' = NewInterpreter
    /\ journaled_state' =
            IF checkpoint
            THEN [journaled_state EXCEPT !.journal = Append(@, <<>>)]
            ELSE journaled_state
    /\ inv' = NoInv
    /\ UNCHANGED <<outcomeVars, handler, steps, frameVars>>

NextInstr ==
    \/ Register
    \/ \E op \in DispatchedOpcodes : \E env \in DispatchEnvsOf(op) : Dispatch(op, env)
    \/ \E checkpoint \in BOOLEAN : SwitchFrame(checkpoint)

SpecInstr == InitInstr /\ [][NextInstr]_vars

-----------------------------------------------------------------------------
(* Properties of one dispatch through the wrapped table (SpecInstr) *)

Dispatched == inv.op = "dispatch"

Calls(hook) == {k \in DOMAIN inv.trace : inv.trace[k].hook = hook}

\* the pointer the dispatch was entered with, already advanced past the opcode
AdvancedPc == inv.pre.interpreter.instruction_pointer

\* every call of the named hooks in the last dispatch changed nothing
NoOps(hooks) ==
    \A k \in DOMAIN inv.trace : inv.trace[k].hook \in hooks => inv.trace[k].input = "noop"

\* the machine left by the last dispatch is the one the unwrapped handler leaves
\* when run directly on the machine the dispatch was entered with
SameAsUnwrapped ==
    \E k \in Calls("instruction") :
        LET direct == Instruction(inv.opcode, inv.pre, inv.trace[k].input = "ok")
        IN  /\ direct.interpreter = interpreter
            /\ direct.journaled_state = journaled_state

\* C1: when the status is not Continue after step returns, the dispatch calls
\* neither the real handler nor step_end
AbortOnPreempt ==
    Dispatched =>
        \A k \in Calls("step") :
            inv.trace[k].status # "Continue"
                => Calls("instruction") = {} /\ Calls("step_end") = {}

AbortOnPreemptWitness ==
    /\ Dispatched
    /\ \E k \in Calls("step") : inv.trace[k].status # "Continue"
    /\ interpreter.instruction_result = "Stop"

\* C2: step is called once and sees the pointer at advanced_pc - 1; when it
\* leaves the status Continue and the pointer where it was, the real handler
\* starts at advanced_pc
PcRoundTrip ==
    Dispatched =>
        /\ Cardinality(Calls("step")) = 1
        /\ \A k \in Calls("step") :
            /\ inv.trace[k].ip = AdvancedPc - 1
            /\ (inv.trace[k].status = "Continue" /\ inv.trace[k].ip_out = inv.trace[k].ip)
                => /\ Cardinality(Calls("instruction")) = 1
                   /\ \A j \in Calls("instruction") : inv.trace[j].ip = AdvancedPc

PcRoundTripWitness ==
    /\ Dispatched
    /\ AdvancedPc = 2
    /\ \E k \in Calls("step"), j \in Calls("instruction") :
        /\ inv.trace[k].ip = 1
        /\ inv.trace[k].ip_out = 1
        /\ inv.trace[j].ip = 2

\* C6: on a LOG slot the log hook is called once when the log list is exactly one
\* longer after the wrapped instruction than before it, with the last log record,
\* and not at all for any other change of length.  (The log hook of the model
\* leaves the log list alone, so the list read here is the one the wrapper read.)
LogHookExactness ==
    (Dispatched /\ inv.opcode \in LogOpcodes) =>
        LET before == Len(inv.pre.journaled_state.logs)
            after == Len(journaled_state.logs)
        IN  /\ Cardinality(Calls("log")) = (IF after = before + 1 THEN 1 ELSE 0)
            /\ \A k \in Calls("log") :
                inv.trace[k].arg.log = Last(journaled_state.logs)

LogHookExactnessWitness ==
    /\ Dispatched
    /\ inv.opcode = LOG4
    /\ Len(inv.pre.journaled_state.logs) = 1
    /\ Len(journaled_state.logs) = 2
    /\ \E k \in Calls("log") : inv.trace[k].arg.log = LogRecord(LOG4, inv.pre.interpreter)

\* a LOG dispatch in which the list grew by two and the hook was skipped
LogHookSkippedWitness ==
    /\ Dispatched
    /\ inv.opcode \in LogOpcodes
    /\ Len(journaled_state.logs) = Len(inv.pre.journaled_state.logs) + 2
    /\ Calls("log") = {}

\* C7: on the SELFDESTRUCT slot the selfdestruct hook is called exactly when the
\* last entry of the current journal segment is an AccountDestroyed record, with
\* that entry's address, target and balance; otherwise it is skipped, and the
\* dispatch does not fail
SelfdestructHookExactness ==
    (Dispatched /\ inv.opcode = SELFDESTRUCT) =>
        LET segment == Last(journaled_state.journal)
            destroyed == segment # <<>> /\ Last(segment).kind = "AccountDestroyed"
        IN  /\ ~inv.panic
            /\ Cardinality(Calls("selfdestruct")) = (IF destroyed THEN 1 ELSE 0)
            /\ \A k \in Calls("selfdestruct") :
                /\ inv.trace[k].arg.address = Last(segment).address
                /\ inv.trace[k].arg.target = Last(segment).target
                /\ inv.trace[k].arg.value = Last(segment).had_balance

SelfdestructHookExactnessWitness ==
    /\ Dispatched
    /\ inv.opcode = SELFDESTRUCT
    /\ \E k \in Calls("selfdestruct") :
        /\ inv.trace[k].arg.target = 0
        /\ inv.trace[k].arg.value = 2
    /\ Len(Last(journaled_state.journal)) = 2

\* a SELFDESTRUCT dispatch that found another entry last and skipped the hook
SelfdestructSkippedWitness ==
    /\ Dispatched
    /\ inv.opcode = SELFDESTRUCT
    /\ Last(journaled_state.journal) # <<>>
    /\ Last(Last(journaled_state.journal)).kind = "StorageChange"
    /\ Calls("selfdestruct") = {}

\* C9 as stated: with step and step_end changing nothing (call and create take no
\* part in a dispatch), the wrapped dispatch leaves the machine the unwrapped
\* handler leaves
TransparencyAsStated ==
    (Dispatched /\ NoOps({"step", "step_end"})) => SameAsUnwrapped

\* C9 amended: the same, when the log hook changes nothing either
Transparency ==
    (Dispatched /\ NoOps({"step", "step_end", "log"})) => SameAsUnwrapped

TransparencyWitness ==
    /\ Dispatched
    /\ inv.opcode = LOG0
    /\ NoOps({"step", "step_end", "log"})
    /\ Calls("log") # {}
    /\ Calls("step_end") # {}
    /\ interpreter.instruction_pointer = 2

\* the real handler ran in the last dispatch and completed successfully
HandlerSucceeded == \E k \in Calls("instruction") : inv.trace[k].input = "ok"

\* C14: in a dispatch of the SELFDESTRUCT slot in which the real handler did not
\* complete successfully (it failed, or step pre-empted it), the selfdestruct hook
\* is not called, whatever earlier operations left in the journal
SelfdestructOnlyOnSuccess ==
    (Dispatched /\ inv.opcode = SELFDESTRUCT /\ ~HandlerSucceeded)
        => Calls("selfdestruct") = {}

\* a pre-empted SELFDESTRUCT dispatch that called the hook on the record an earlier
\* frame's SELFDESTRUCT had left last in the journal segment
SelfdestructStaleWitness ==
    /\ Dispatched
    /\ inv.opcode = SELFDESTRUCT
    /\ Calls("instruction") = {}
    /\ Calls("selfdestruct") # {}
    /\ inv.pre.journaled_state.journal = journaled_state.journal

PostHookOpcodes == LogOpcodes \cup {SELFDESTRUCT}

PostHooks == {"log", "selfdestruct"}

\* step left the status Continue in the last dispatch
StepContinued == \E k \in Calls("step") : inv.trace[k].status = "Continue"

\* C16: in a dispatch of LOG0..LOG4 or SELFDESTRUCT in which step leaves the status
\* Continue, the calls are, in this order: step, the real handler, step_end, and
\* then at most one call of the slot's own post-hook; no post-hook call comes
\* before step_end
HookOrder ==
    (Dispatched /\ inv.opcode \in PostHookOpcodes /\ StepContinued) =>
        /\ Len(inv.trace) \in {3, 4}
        /\ inv.trace[1].hook = "step"
        /\ inv.trace[2].hook = "instruction"
        /\ inv.trace[3].hook = "step_end"
        /\ Len(inv.trace) = 4 =>
                inv.trace[4].hook =
                    (IF inv.opcode \in LogOpcodes THEN "log" ELSE "selfdestruct")
        /\ \A k \in DOMAIN inv.trace :
                inv.trace[k].hook \in PostHooks =>
                    \E j \in Calls("step_end") : j < k

HookOrderWitness ==
    /\ Dispatched
    /\ inv.opcode = LOG0
    /\ StepContinued
    /\ Len(inv.trace) = 4
    /\ inv.trace[3].hook = "step_end"
    /\ inv.trace[3].input = "revert"
    /\ inv.trace[4].hook = "log"

HookOrderSelfdestructWitness ==
    /\ Dispatched
    /\ inv.opcode = SELFDESTRUCT
    /\ StepContinued
    /\ Len(inv.trace) = 4
    /\ inv.trace[2].input = "ok"
    /\ inv.trace[4].hook = "selfdestruct"

\* C17: in a dispatch where step leaves the status Continue the real handler runs
\* exactly once and step_end exactly once after it, whatever status the handler
\* set; the wrapper itself never writes the status: every callee is entered with
\* the status the previous one returned, and the dispatch ends with the status
\* the last callee returned
StatusPreserved ==
    Dispatched =>
        /\ StepContinued =>
                /\ Cardinality(Calls("instruction")) = 1
                /\ Cardinality(Calls("step_end")) = 1
                /\ \A i \in Calls("instruction"), e \in Calls("step_end") : i < e
        /\ inv.trace # <<>>
        /\ inv.trace[1].status_in = inv.pre.interpreter.instruction_result
        /\ \A k \in DOMAIN inv.trace :
                k > 1 => inv.trace[k].status_in = inv.trace[k - 1].status
        /\ interpreter.instruction_result = Last(inv.trace).status

StatusPreservedWitness ==
    /\ Dispatched
    /\ inv.opcode = POP
    /\ StepContinued
    /\ \E i \in Calls("instruction"), e \in Calls("step_end") :
            /\ inv.trace[i].status = "StackUnderflow"
            /\ inv.trace[e].status_in = "StackUnderflow"
            /\ inv.trace[e].input = "noop"
    /\ interpreter.instruction_result = "StackUnderflow"

StatusOverwrittenByStepEndWitness ==
    /\ Dispatched
    /\ \E i \in Calls("instruction"), e \in Calls("step_end") :
            /\ inv.trace[i].status = "OutOfGas"
            /\ inv.trace[e].status = "Revert"
    /\ interpreter.instruction_result = "Revert"

\* C19: when step leaves a status other than Continue the pointer is not put back:
\* the dispatch returns with the pointer where step left it, which is
\* advanced_pc - 1 when step did not move it; when step leaves Continue the
\* pointer is advanced by one again before the real handler runs, to advanced_pc
\* when step did not move it
PreemptKeepsRewound ==
    Dispatched =>
        \A k \in Calls("step") :
            /\ inv.trace[k].status # "Continue" =>
                    /\ interpreter.instruction_pointer = inv.trace[k].ip_out
                    /\ inv.trace[k].ip_out = inv.trace[k].ip =>
                            interpreter.instruction_pointer = AdvancedPc - 1
            /\ inv.trace[k].status = "Continue" =>
                    /\ Calls("instruction") # {}
                    /\ \A j \in Calls("instruction") :
                            /\ inv.trace[j].ip = inv.trace[k].ip_out + 1
                            /\ inv.trace[k].ip_out = inv.trace[k].ip =>
                                    inv.trace[j].ip = AdvancedPc

PreemptKeepsRewoundWitness ==
    /\ Dispatched
    /\ AdvancedPc = 2
    /\ \E k \in Calls("step") :
            /\ inv.trace[k].status = "Stop"
            /\ inv.trace[k].ip_out = inv.trace[k].ip
    /\ interpreter.instruction_pointer = 1
    /\ Calls("instruction") = {}

PreemptPostHookSlotWitness ==
    /\ Dispatched
    /\ inv.opcode = SELFDESTRUCT
    /\ ~StepContinued
    /\ Calls("selfdestruct") # {}
    /\ interpreter.instruction_pointer = AdvancedPc - 1

-----------------------------------------------------------------------------
(* Properties of registration (SpecInstr) *)

Registered == phase \notin {"setup", "aborted"}

LifecycleHooks(h) == <<h.create_first_frame, h.sub_create, h.sub_call, h.frame_return>>

\* the post-hook layer slot i is meant to carry
PostLayer(i) ==
    IF i \in LogOpcodes THEN "log" ELSE IF i = SELFDESTRUCT THEN "selfdestruct" ELSE "none"

\* a table of exactly 256 slots, 0..255, whose slot i holds the source's handler of
\* slot i inside the step/step_end wrapper, and inside the post-hook layer of slot i
SlotwiseTable ==
    [i \in 0 .. 255 |->
        [handler |-> BaseTable[i].handler, step |-> TRUE, post |-> PostLayer(i)]]

\* C11: once the register has returned, for a Plain as for a Boxed source table, the
\* installed table has exactly 256 slots, every slot i (those of undefined opcodes
\* too) holds the source's handler of slot i inside the step/step_end wrapper, only
\* LOG0..LOG4 and SELFDESTRUCT carry a post-hook layer, and a dispatch of opcode i
\* runs step and then the handler of opcode i
RegistrationTotal ==
    Registered =>
        LET installed == handler.instruction_table
        IN  /\ installed # Absent
            /\ installed.table = SlotwiseTable
            /\ Dispatched =>
                    /\ Calls("step") # {}
                    /\ \A k \in Calls("instruction") : inv.trace[k].arg.opcode = inv.opcode

RegistrationTotalWitness ==
    /\ inv.op = "register"
    /\ inv.source = "Plain"
    /\ Registered
    /\ handler.instruction_table.table[UNDEFINED].step
    /\ handler.instruction_table.table[LOG2].post = "log"

RegistrationBoxedWitness ==
    /\ inv.op = "register"
    /\ inv.source = "Boxed"
    /\ Registered
    /\ handler.instruction_table = Tables("Boxed", InspectorTable)

RegistrationUndefinedDispatchWitness ==
    /\ Dispatched
    /\ inv.opcode = UNDEFINED
    /\ Calls("step_end") # {}
    /\ interpreter.instruction_result = "OpcodeNotFound"

\* C12: when the instruction table is absent the register aborts, and none of
\* create_first_frame, sub_create, sub_call, frame_return has been replaced; it
\* returns normally only when the table was present
RegistrationAbort ==
    /\ (inv.op = "register" /\ inv.source = "Absent") => phase = "aborted"
    /\ phase = "aborted" =>
            /\ inv.op = "register" /\ inv.panic
            /\ LifecycleHooks(handler) = <<"mainnet", "mainnet", "mainnet", "mainnet">>
            /\ handler.instruction_table = Absent
    /\ Registered => handler.instruction_table # Absent

RegistrationAbortWitness ==
    /\ phase = "aborted"
    /\ inv.op = "register"
    /\ inv.source = "Absent"
    /\ handler = MainnetHandler(Absent)

-----------------------------------------------------------------------------
(* State machine: the execution loop driving the lifecycle hooks *)

\* The inputs of one invocation: what each collaborator it may call returns.  An
\* input the invocation never consumes is held at its first value.
DefaultMake == [kind |-> "Frame"]

FirstFrameEnvs ==
    {e \in [call : CallHookOutputs, create : CreateHookOutputs, make : MakeFrameOutputs] :
        /\ transact_to = "Call" => e.create = None
        /\ transact_to = "Create" => e.call = None
        /\ (e.call.some \/ e.create.some) => e.make = DefaultMake}

SubCallEnvs ==
    {e \in [call : CallHookOutputs, make : MakeFrameOutputs, call_end : CallEndBehaviours] :
        /\ e.call.some => e.make = DefaultMake
        /\ e.make.kind = "Frame" => e.call_end = "keep"}

SubCreateEnvs ==
    {e \in [create : CreateHookOutputs, make : MakeFrameOutputs,
            create_end : CreateEndBehaviours] :
        /\ e.create.some => e.make = DefaultMake
        /\ e.make.kind = "Frame" => e.create_end = "keep"}

FrameReturnEnvs ==
    {e \in [call_end : CallEndBehaviours, create_end : CreateEndBehaviours] :
        IF call_stack # <<>> /\ call_stack[Len(call_stack)].frame_data.tag = "Create"
        THEN e.call_end = "keep"
        ELSE e.create_end = "keep"}

EndHooks == {"call_end", "create_end"}

\* history record of one requested execution
Sub(kind, via, outcome, ends) ==
    [kind |-> kind, via |-> via, outcome |-> outcome, ends |-> ends, ends_at_return |-> 0]

ConstructionOutcome(out) ==
    IF out.trace[1].ret.some THEN "short"
    ELSE IF Count(out.trace, {"make_call_frame", "make_create_frame"}) = 1
            /\ out.trace[2].ret.kind = "Frame" THEN "running"
    ELSE "failed"

\* the transaction starts: create_first_frame(context, gas_limit)
StartTransaction(env) ==
    /\ handler.create_first_frame = "inspector"
    /\ phase = "new"
    /\ LET out == CreateFirstFrame(transact_to, env)
       IN  /\ inv' = [op |-> "create_first_frame", trace |-> out.trace, ret |-> out.ret]
           /\ subs' = <<Sub(IF transact_to = "Call" THEN "call" ELSE "create", "first",
                            ConstructionOutcome(out), Count(out.trace, EndHooks))>>
           /\ IF out.ret.kind = "Frame"
              THEN /\ call_stack' = <<out.ret.frame>>
                   /\ phase' = "running"
                   /\ tx_result' = tx_result
              ELSE /\ call_stack' = call_stack
                   /\ phase' = "done"
                   /\ tx_result' = out.ret
    /\ UNCHANGED <<outcomeVars, handler, instrVars, steps, transact_to>>

\* the running frame's interpreter executes instructions of the table
Run ==
    /\ phase = "running"
    /\ steps < MaxSteps
    /\ steps' = steps + 1
    /\ inv' = NoInv
    /\ UNCHANGED <<outcomeVars, handler, instrVars, frameVars>>

Top == call_stack[Len(call_stack)]

\* the running frame asks for a nested call: sub_call(context, inputs, frame, memory, range)
RunSubCall(return_memory_offset, env) ==
    /\ handler.sub_call = "inspector"
    /\ phase = "running"
    /\ Len(subs) < MaxSubs
    /\ Len(call_stack) < MaxDepth \/ env.make.kind # "Frame"
    /\ LET out == SubCall(Top, return_memory_offset, Len(subs) + 1, env)
           stack == [call_stack EXCEPT ![Len(call_stack)] = out.frame]
       IN  /\ inv' = [op |-> "sub_call", trace |-> out.trace, ret |-> out.ret,
                      return_memory_offset |-> return_memory_offset,
                      frame |-> out.frame, depth |-> Len(call_stack)]
           /\ subs' = Append(subs, Sub("call", "sub_call", ConstructionOutcome(out),
                                       Count(out.trace, EndHooks)))
           /\ call_stack' = IF out.ret.some THEN Append(stack, out.ret.v) ELSE stack
    /\ UNCHANGED <<outcomeVars, handler, instrVars, steps, transact_to, phase, tx_result>>

\* the running frame asks for a nested create: sub_create(context, frame, inputs)
RunSubCreate(env) ==
    /\ handler.sub_create = "inspector"
    /\ phase = "running"
    /\ Len(subs) < MaxSubs
    /\ Len(call_stack) < MaxDepth \/ env.make.kind # "Frame"
    /\ LET out == SubCreate(Top, Len(subs) + 1, env)
           stack == [call_stack EXCEPT ![Len(call_stack)] = out.frame]
       IN  /\ inv' = [op |-> "sub_create", trace |-> out.trace, ret |-> out.ret,
                      frame |-> out.frame, depth |-> Len(call_stack)]
           /\ subs' = Append(subs, Sub("create", "sub_create", ConstructionOutcome(out),
                                       Count(out.trace, EndHooks)))
           /\ call_stack' = IF out.ret.some THEN Append(stack, out.ret.v) ELSE stack
    /\ UNCHANGED <<outcomeVars, handler, instrVars, steps, transact_to, phase, tx_result>>

\* the running frame finishes: the loop pops it and calls
\* frame_return(context, child, parent, memory, result)
RunReturn(result, env) ==
    /\ handler.frame_return = "inspector"
    /\ phase = "running"
    /\ LET child == Top
           rest == Front(call_stack)
           parent == IF rest = <<>> THEN None ELSE Some(Last(rest))
           out == FrameReturn(child, parent, result, env)
       IN  /\ inv' = [op |-> "frame_return", trace |-> out.trace, ret |-> out.ret,
                      child |-> child, result |-> result]
           /\ subs' = [subs EXCEPT ![child.sub] =
                          [@ EXCEPT !.outcome = "returned",
                                    !.ends = @ + Count(out.trace, EndHooks),
                                    !.ends_at_return = @ + Count(out.trace, EndHooks)]]
           /\ IF out.ret.some
              THEN /\ phase' = "done"
                   /\ tx_result' = [kind |-> "Result", result |-> out.ret.v]
                   /\ call_stack' = rest
              ELSE /\ phase' = phase
                   /\ tx_result' = tx_result
                   /\ call_stack' = [rest EXCEPT ![Len(rest)] = out.frame.v]
    /\ UNCHANGED <<outcomeVars, handler, instrVars, steps, transact_to>>

Next ==
    \/ \E env \in FirstFrameEnvs : StartTransaction(env)
    \/ Run
    \/ \E range \in ReturnRanges, env \in SubCallEnvs : RunSubCall(range, env)
    \/ \E env \in SubCreateEnvs : RunSubCreate(env)
    \/ \E result \in ReturnResults, env \in FrameReturnEnvs : RunReturn(result, env)

Spec == Init /\ [][Next]_vars

-----------------------------------------------------------------------------
(* Properties of the frame lifecycle hooks (Spec) *)

Notes(hook) == {k \in DOMAIN inv.trace : inv.trace[k].hook = hook}

MakeFrame == {"make_call_frame", "make_create_frame"}

\* the last invocation was sub_call or sub_create and the hook synthesized an outcome
SubShortCircuited ==
    /\ inv.op \in {"sub_call", "sub_create"}
    /\ inv.trace[1].hook \in {"call", "create"}
    /\ inv.trace[1].ret.some

\* C3: when the call/create hook of sub_call/sub_create synthesizes an outcome, no
\* frame is returned or pushed, frame construction is not called, and the current
\* frame's pending output is the synthesized result with the hook's range (call)
\* or the hook's address (create)
ShortCircuitEquivalence ==
    SubShortCircuited =>
        LET synth == inv.trace[1].ret.v
        IN  /\ ~inv.ret.some
            /\ Len(call_stack) = inv.depth
            /\ Count(inv.trace, MakeFrame) = 0
            /\ Top = inv.frame
            /\ inv.op = "sub_call" =>
                    Top.output = [kind |-> "call", result |-> synth.result,
                                  range |-> synth.range]
            /\ inv.op = "sub_create" =>
                    Top.output = [kind |-> "create", result |-> synth.result,
                                  address |-> synth.address]

ShortCircuitEquivalenceWitness ==
    /\ SubShortCircuited
    /\ inv.op = "sub_call"
    /\ inv.return_memory_offset = Range(0, 2)
    /\ Top.output = [kind |-> "call",
                     result |-> InterpreterResult("Stop", <<18, 52>>, 0),
                     range |-> Range(1, 3)]

ShortCircuitCreateWitness ==
    /\ SubShortCircuited
    /\ inv.op = "sub_create"
    /\ Top.output.address = Some("synth")

\* C4: frame_return calls create_end once and call_end never for a Create child,
\* call_end once and create_end never for a Call child, and then calls the
\* pre-existing handler once, with the result the end hook returned
FrameReturnSingleDispatch ==
    inv.op = "frame_return" =>
        /\ inv.child.frame_data.tag = "Create" =>
                /\ Cardinality(Notes("create_end")) = 1
                /\ Notes("call_end") = {}
                /\ \A k \in Notes("create_end"), j \in Notes("old_handle") :
                        k < j /\ inv.trace[j].arg.result = inv.trace[k].ret.result
        /\ inv.child.frame_data.tag = "Call" =>
                /\ Cardinality(Notes("call_end")) = 1
                /\ Notes("create_end") = {}
                /\ \A k \in Notes("call_end"), j \in Notes("old_handle") :
                        k < j /\ inv.trace[j].arg.result = inv.trace[k].ret
        /\ Cardinality(Notes("old_handle")) = 1

FrameReturnSingleDispatchWitness ==
    /\ inv.op = "frame_return"
    /\ inv.child.frame_data.tag = "Call"
    /\ inv.result = InterpreterResult("Return", <<1>>, 0)
    /\ \E j \in Notes("old_handle") : inv.trace[j].arg.result = ReplacedResult

FrameReturnCreateWitness ==
    /\ inv.op = "frame_return"
    /\ inv.child.frame_data.tag = "Create"
    /\ \E j \in Notes("old_handle") : inv.trace[j].arg.result = ReplacedResult

\* the executions requested through sub_call / sub_create
Requested == {i \in DOMAIN subs : subs[i].via # "first"}

FramesOf(i) == {k \in DOMAIN call_stack : call_stack[k].sub = i}

ShortCircuitedOnly(i) ==
    subs[i].outcome = "short" /\ subs[i].ends = 0 /\ FramesOf(i) = {}

ExecutedAsChild(i) ==
    \/ subs[i].outcome = "running" /\ subs[i].ends = 0 /\ Cardinality(FramesOf(i)) = 1
    \/ /\ subs[i].outcome = "returned"
       /\ subs[i].ends = 1
       /\ subs[i].ends_at_return = 1
       /\ FramesOf(i) = {}

RejectedAtConstruction(i) ==
    /\ subs[i].outcome = "failed"
    /\ subs[i].ends = 1
    /\ subs[i].ends_at_return = 0
    /\ FramesOf(i) = {}

\* C5 as stated: every requested sub-execution is either short-circuited at
\* construction (no end hook), or runs as a child frame with one end hook at
\* frame-return time
OrderingAsStated ==
    \A i \in Requested : ShortCircuitedOnly(i) \/ ExecutedAsChild(i)

\* C5 amended: or its construction is rejected, with one end hook at construction
\* time and no child frame
Ordering ==
    \A i \in Requested :
        ShortCircuitedOnly(i) \/ ExecutedAsChild(i) \/ RejectedAtConstruction(i)

OrderingWitness ==
    \E i, j \in Requested :
        /\ subs[i].outcome = "failed" /\ subs[i].kind = "create"
        /\ subs[j].outcome = "returned" /\ subs[j].kind = "call"

OrderingShortWitness ==
    \E i, j \in Requested : subs[i].outcome = "short" /\ subs[j].outcome = "running"

\* C8: when the call/create hook of create_first_frame synthesizes an outcome, its
\* result is the transaction's result, no first frame is built and no table entry
\* is ever invoked
FirstFrameShortCircuit ==
    (subs # <<>> /\ subs[1].outcome = "short") =>
        /\ inv.op = "create_first_frame"
        /\ inv.trace[1].hook = (IF transact_to = "Call" THEN "call" ELSE "create")
        /\ tx_result = [kind |-> "Result", result |-> inv.trace[1].ret.v.result]
        /\ inv.ret = tx_result
        /\ Count(inv.trace, MakeFrame) = 0
        /\ phase = "done"
        /\ call_stack = <<>>
        /\ steps = 0

FirstFrameShortCircuitWitness ==
    /\ phase = "done"
    /\ transact_to = "Call"
    /\ subs[1].outcome = "short"
    /\ tx_result = [kind |-> "Result", result |-> InterpreterResult("Stop", <<18, 52>>, 0)]

FirstFrameCreateShortWitness ==
    /\ phase = "done"
    /\ transact_to = "Create"
    /\ subs[1].outcome = "short"
    /\ tx_result.kind = "Result"

\* the last invocation was sub_call or sub_create, the hook did not synthesize an
\* outcome, and frame construction returned a result instead of a frame
SubRejected ==
    /\ inv.op \in {"sub_call", "sub_create"}
    /\ ~inv.trace[1].ret.some
    /\ \E k \in DOMAIN inv.trace :
            inv.trace[k].hook \in MakeFrame /\ inv.trace[k].ret.kind = "Result"

\* the result frame construction returned in the last invocation
Rejection == inv.trace[2].ret.result

\* C13: when sub_call / sub_create is not short-circuited and frame construction
\* returns a failure result, call_end (sub_call) or create_end (sub_create) is called
\* exactly once, on that failure result, what it returns is written to the current
\* frame's pending output, no frame is returned or pushed, and initialize_interp is
\* not called
FailurePath ==
    SubRejected =>
        /\ inv.op = "sub_call" =>
                /\ Cardinality(Notes("call_end")) = 1
                /\ Notes("create_end") = {}
                /\ \A k \in Notes("call_end") :
                        /\ inv.trace[k].arg = Rejection
                        /\ Top.output = [kind |-> "call", result |-> inv.trace[k].ret,
                                         range |-> inv.return_memory_offset]
        /\ inv.op = "sub_create" =>
                /\ Cardinality(Notes("create_end")) = 1
                /\ Notes("call_end") = {}
                /\ \A k \in Notes("create_end") :
                        /\ inv.trace[k].arg.result = Rejection
                        /\ Top.output = [kind |-> "create",
                                         result |-> inv.trace[k].ret.result,
                                         address |-> inv.trace[k].ret.address]
        /\ Top = inv.frame
        /\ ~inv.ret.some
        /\ Len(call_stack) = inv.depth
        /\ Notes("initialize_interp") = {}

FailurePathWitness ==
    /\ SubRejected
    /\ inv.op = "sub_call"
    /\ inv.return_memory_offset = Range(0, 2)
    /\ Rejection = InterpreterResult("CallTooDeep", <<>>, 1)
    /\ Top.output = [kind |-> "call", result |-> ReplacedResult, range |-> Range(0, 2)]

FailurePathCreateWitness ==
    /\ SubRejected
    /\ inv.op = "sub_create"
    /\ Top.output.kind = "create"
    /\ Top.output.result = Rejection
    /\ Top.output.address = Some("replaced")

\* the last invocation was one of the three hooks that construct frames
Constructing == inv.op \in {"create_first_frame", "sub_call", "sub_create"}

\* the last invocation handed a newly created frame to the execution loop
FrameCreated ==
    \/ inv.op = "create_first_frame" /\ inv.ret.kind = "Frame"
    \/ inv.op \in {"sub_call", "sub_create"} /\ inv.ret.some

\* C15: create_first_frame, sub_call and sub_create call initialize_interp exactly
\* once when they create a frame and not at all when they create none, so every
\* frame the execution loop runs has had the hook called on its interpreter
InitializeOncePerFrame ==
    /\ Constructing =>
            Cardinality(Notes("initialize_interp")) = (IF FrameCreated THEN 1 ELSE 0)
    /\ \A k \in DOMAIN call_stack : call_stack[k].initialized

\* a first frame that runs without initialize_interp having been called on it
InitializeSkippedWitness ==
    /\ inv.op = "create_first_frame"
    /\ FrameCreated
    /\ Notes("initialize_interp") = {}
    /\ phase = "running"
    /\ ~call_stack[1].initialized

\* C18: frame_return hands the child on to the pre-existing handler with its
\* created-address replaced by the address create_end returned when create_end
\* returned one, with its created-address as it was when create_end returned
\* none, and otherwise untouched; a Call child is handed on as it was received
CreatedAddressOverwrite ==
    inv.op = "frame_return" =>
        \A j \in Notes("old_handle") :
            LET passed == inv.trace[j].arg.child
            IN  /\ inv.child.frame_data.tag = "Call" =>
                        passed = inv.child /\ Notes("create_end") = {}
                /\ inv.child.frame_data.tag = "Create" =>
                        \A k \in Notes("create_end") :
                            LET address == inv.trace[k].ret.address
                            IN  /\ passed = [inv.child EXCEPT !.frame_data.created_address =
                                                IF address.some THEN address.v ELSE @]
                                /\ ~address.some =>
                                        passed.frame_data.created_address
                                            = inv.child.frame_data.created_address

CreatedAddressOverwriteWitness ==
    /\ inv.op = "frame_return"
    /\ inv.child.frame_data.tag = "Create"
    /\ inv.child.frame_data.created_address = "created"
    /\ \E k \in Notes("create_end"), j \in Notes("old_handle") :
            /\ inv.trace[k].ret.address = Some("replaced")
            /\ inv.trace[j].arg.child.frame_data.created_address = "replaced"

CreatedAddressKeptWitness ==
    /\ inv.op = "frame_return"
    /\ inv.child.frame_data.tag = "Create"
    /\ \E k \in Notes("create_end"), j \in Notes("old_handle") :
            /\ inv.trace[k].ret.address = None
            /\ inv.trace[j].arg.child.frame_data.created_address = "created"

\* the executions whose call / create hook returned no synthesized outcome and
\* that are over: construction was rejected, or the frame ran and returned
Finished == {i \in DOMAIN subs : subs[i].outcome \in {"failed", "returned"}}

\* C20: over a transaction, the top-level execution included, every execution whose
\* call / create hook returned no synthesized outcome gets exactly one call_end /
\* create_end: none while its frame runs, one once the frame has returned or its
\* construction has been rejected
Balanced ==
    \A i \in DOMAIN subs :
        /\ subs[i].ends <= 1
        /\ subs[i].outcome = "running" => subs[i].ends = 0
        /\ i \in Finished => subs[i].ends = 1

\* a transaction that is over, whose first frame was rejected at construction and
\* whose call hook was never followed by call_end
UnbalancedFirstFrameWitness ==
    /\ phase = "done"
    /\ transact_to = "Call"
    /\ inv.op = "create_first_frame"
    /\ Notes("call") # {} /\ ~inv.trace[1].ret.some
    /\ Notes("call_end") = {}
    /\ subs[1].outcome = "failed"
    /\ tx_result = [kind |-> "Result", result |-> InterpreterResult("CallTooDeep", <<>>, 1)]

\* everywhere else the hooks are balanced: a transaction that is over, with a
\* returned first frame, a returned child and a rejected child, one end hook each
BalancedElsewhereWitness ==
    /\ phase = "done"
    /\ Len(subs) = 3
    /\ subs[1].outcome = "returned" /\ subs[1].ends = 1
    /\ \E i, j \in Requested :
            /\ subs[i].outcome = "returned" /\ subs[i].ends = 1
            /\ subs[j].outcome = "failed" /\ subs[j].ends = 1

-----------------------------------------------------------------------------
(* State machine: a CallOutcome is constructed, read, and discarded *)

OutcomeResults == SynthResults \cup ReturnResults

Offsets == 0 .. MaxMem

\* every Range<usize> over the offsets, inverted ones included
OutcomeRanges == {Range(a, b) : a \in Offsets, b \in Offsets}

InitOutcome == InitCommon /\ transact_to = "Call"

New(interpreter_result, memory_offset) ==
    /\ call_outcome = NoOutcome
    /\ call_outcome' = CallOutcomeNew(interpreter_result, memory_offset)
    /\ new_args' = [result |-> interpreter_result, range |-> memory_offset]
    /\ inv' = [op |-> "new"]
    /\ UNCHANGED <<handler, instrVars, steps, frameVars>>

Read(accessor) ==
    /\ call_outcome # NoOutcome
    /\ inv' = [op |-> accessor,
               ret |-> CASE accessor = "instruction_result" ->
                                CallOutcomeInstructionResult(call_outcome)
                         [] accessor = "gas" -> CallOutcomeGas(call_outcome)
                         [] accessor = "output" -> CallOutcomeOutput(call_outcome)
                         [] accessor = "memory_start" ->
                                CallOutcomeMemoryStart(call_outcome)
                         [] accessor = "memory_length" ->
                                CallOutcomeMemoryLength(call_outcome)]
    /\ UNCHANGED <<outcomeVars, handler, instrVars, steps, frameVars>>

Accessors == {"instruction_result", "gas", "output", "memory_start", "memory_length"}

Discard ==
    /\ call_outcome # NoOutcome
    /\ call_outcome' = NoOutcome
    /\ new_args' = NoOutcome
    /\ inv' = NoInv
    /\ UNCHANGED <<handler, instrVars, steps, frameVars>>

NextOutcome ==
    \/ \E r \in OutcomeResults, g \in OutcomeRanges : New(r, g)
    \/ \E a \in Accessors : Read(a)
    \/ Discard

SpecOutcome == InitOutcome /\ [][NextOutcome]_vars

-----------------------------------------------------------------------------
(* Properties of CallOutcome (SpecOutcome) *)

Constructed == call_outcome # NoOutcome

\* C10 as stated: memory_length() is range.end - range.start for every range given
\* to new
MemoryLengthAsStated ==
    (Constructed /\ inv.op = "memory_length") =>
        inv.ret = new_args.range.end - new_args.range.start

\* C10 amended: memory_length() is range.end - range.start when start <= end and 0
\* for an inverted range, memory_start() is range.start, a zero-length range has
\* length 0 whatever the output, and the range held is the one given to new for as
\* long as the CallOutcome exists
CallOutcomeRange ==
    Constructed =>
        /\ call_outcome.memory_offset = new_args.range
        /\ call_outcome.interpreter_result = new_args.result
        /\ inv.op = "memory_start" => inv.ret = new_args.range.start
        /\ inv.op = "memory_length" =>
            /\ new_args.range.start <= new_args.range.end
                    => inv.ret = new_args.range.end - new_args.range.start
            /\ new_args.range.start > new_args.range.end => inv.ret = 0
            /\ new_args.range.start = new_args.range.end => inv.ret = 0

CallOutcomeRangeWitness ==
    /\ Constructed
    /\ inv.op = "memory_length"
    /\ inv.ret = 0
    /\ new_args.range = Range(1, 1)
    /\ CallOutcomeOutput(call_outcome) # <<>>

CallOutcomeInvertedWitness ==
    /\ Constructed
    /\ inv.op = "memory_length"
    /\ inv.ret = 0
    /\ new_args.range = Range(2, 1)

CallOutcomeLengthWitness ==
    /\ Constructed
    /\ inv.op = "memory_length"
    /\ inv.ret = 2
    /\ new_args.range = Range(0, 2)
    /\ CallOutcomeOutput(call_outcome) = <<>>

====
